---- MODULE Spec2Model ----
(***************************************************************************)
(* Model of artkit/model/util/_retry.py: retrying an asynchronous          *)
(* connector method with exponential backoff on RateLimitException.        *)
(*                                                                         *)
(* A function object is the sequence of its retry layers, outermost first; *)
(* the empty sequence is the undecorated operation.  A task runs one       *)
(* invocation at a time; the frames of the exponential_delay coroutines    *)
(* that are live in it form its stack.  Delays are exact rationals <<n,d>> *)
(* in lowest terms.  hist records, per invocation, every call of the       *)
(* undecorated operation, every warning and every sleep, in order.         *)
(***************************************************************************)
EXTENDS Integers, Sequences, FiniteSets, TLC

\* ------------------------------------------------------------- bounds
MaxRetries == 2
MaxLayers == 2
MaxFails == 4

\* ---------------------------------------------------------- rationals
RECURSIVE GCD(_, _)
GCD(a, b) == IF b = 0 THEN a ELSE GCD(b, a % b)

Norm(n, d) == LET g == GCD(n, d) IN <<n \div g, d \div g>>

Nat2R(n) == <<n, 1>>

RMul(x, y) == Norm(x[1] * y[1], x[2] * y[2])

RAdd(x, y) == Norm(x[1] * y[2] + y[1] * x[2], x[2] * y[2])

RLe(x, y) == x[1] * y[2] <= y[1] * x[2]

RLt(x, y) == x[1] * y[2] < y[1] * x[2]

RECURSIVE RPow(_, _)
RPow(x, k) == IF k = 0 THEN Nat2R(1) ELSE RMul(x, RPow(x, k - 1))

\* bool used as a number: True is 1, False is 0
BoolNum(b) == IF b THEN Nat2R(1) ELSE Nat2R(0)

\* the values random.random() is sampled at, all in [0, 1)
Random == {Norm(0, 1), Norm(1, 2)}

\* ------------------------------------------------------------ policies
Task == {"t1", "t2"}

Receiver == {"r1", "r2"}

Values == {"v1", "v2"}

Shapes ==
  {[initial_delay |-> Nat2R(3), exponential_base |-> Nat2R(2), jitter |-> FALSE],
   [initial_delay |-> Nat2R(1), exponential_base |-> Norm(3, 2), jitter |-> TRUE]}

AllPolicies ==
  {[max_retries |-> n, initial_delay |-> s.initial_delay,
    exponential_base |-> s.exponential_base, jitter |-> s.jitter] :
     n \in 0 .. MaxRetries, s \in Shapes}

\* jitter is drawn only with the largest number of attempts
Policies == AllPolicies \ {p \in AllPolicies : p.jitter /\ p.max_retries < MaxRetries}

\* the policies Operation A is applied with directly
ExplicitPolicies == {p \in Policies : ~p.jitter /\ p.max_retries \in {0, 1, MaxRetries}}

\* the policies the fields of a receiver are drawn from
FieldsOf(rc) ==
  IF rc = "r1" THEN Policies
  ELSE {p \in Policies : ~p.jitter /\ p.max_retries = 1}

\* ---------------------------------------------------------- exceptions
NoExc == [kind |-> "None"]

Unbound == [kind |-> "Unbound"]

\* the failure the undecorated operation raises to signal a rate limit;
\* id tells the instances of one invocation apart
OpRateLimitError(id) ==
  [kind |-> "RateLimitException", msg |-> "rate limit", id |-> id, cause |-> NoExc]

OpOtherError(id) ==
  [kind |-> "OtherError", msg |-> "other", id |-> id, cause |-> NoExc]

\* reading a local that was never assigned
UnboundLocalError ==
  [kind |-> "UnboundLocalError", msg |-> "last_exception", id |-> 0, cause |-> NoExc]

\* ------------------------------------------------- state of the program
VARIABLES
  method,    \* the connector method as the class holds it: its retry layers
  receiver,  \* receiver -> its four policy fields
  pc,        \* task -> "idle", "attempting", "waiting" or "done"
  self,      \* task -> the receiver of its invocation
  stack,     \* task -> the live exponential_delay frames, outermost first
  outcome,   \* task -> what its invocation returned or raised
  hist,      \* task -> the calls, warnings and sleeps of its invocation
  callers,   \* the tasks that call the method
  faults,    \* task -> rate-limit failures the operation raised so far
  last,      \* task -> what the undecorated operation last returned or raised
  atcall,    \* task -> the receiver's fields when its invocation started
  rebound,   \* task -> its receiver's fields changed since its previous call
  rewrapped  \* Operation B was applied to a function that was its result

vars ==
  <<method, receiver, pc, self, stack, outcome, hist, callers, faults, last,
    atcall, rebound, rewrapped>>

NoFields ==
  [max_retries |-> 0, initial_delay |-> Nat2R(0), exponential_base |-> Nat2R(0),
   jitter |-> FALSE]

NoOutcome == [status |-> "none", value |-> "", exc |-> NoExc]

Returned(v) == [status |-> "returned", value |-> v, exc |-> NoExc]

Raised(exc) == [status |-> "raised", value |-> "", exc |-> exc]

CallEvent(depth) ==
  [ev |-> "call", depth |-> depth, n |-> 0, max |-> 0, delay |-> Nat2R(0)]

LogEvent(depth, n, max, delay) ==
  [ev |-> "log", depth |-> depth, n |-> n, max |-> max, delay |-> delay]

SleepEvent(depth, delay) ==
  [ev |-> "sleep", depth |-> depth, n |-> 0, max |-> 0, delay |-> delay]

\* ----------------------------------------------------------- decorators
\* Operation A: a new function object of code exponential_delay, closing
\* over func and the four policy values
retry_function_with_exponential_backoff(func, max_retries, delay, exponential_base, jitter) ==
  <<[code |-> "exponential_delay", max_retries |-> max_retries, delay |-> delay,
     exponential_base |-> exponential_base, jitter |-> jitter]>> \o func

\* func.__code__ is _wrapper.__code__
IsWrapper(func) == func # <<>> /\ Head(func).code = "_wrapper"

\* as retry_with_exponential_backoff, without the check for a function that
\* is already wrapped
retry_with_exponential_backoff_unchecked(func) == <<[code |-> "_wrapper"]>> \o func

\* Operation B: a new function object of code _wrapper closing over func,
\* unless func already is one
retry_with_exponential_backoff(func) ==
  IF IsWrapper(func) THEN func ELSE <<[code |-> "_wrapper"]>> \o func

\* as _wrapper, with the policy fixed when the method was wrapped instead of
\* read from the receiver
_wrapper_at_decoration(func, fields) ==
  retry_function_with_exponential_backoff(func, 1, Nat2R(3), Nat2R(2), FALSE)

\* the body of _wrapper up to the call: the receiver's fields are read and
\* Operation A is applied to func with them
_wrapper(func, fields) ==
  retry_function_with_exponential_backoff(
    func, fields.max_retries, fields.initial_delay, fields.exponential_base,
    fields.jitter)

\* ------------------------------------------------- exponential_delay
\* the locals of exponential_delay on entry
NewFrame(layer, func) ==
  [func |-> func, max_retries |-> layer.max_retries, delay |-> layer.delay,
   exponential_base |-> layer.exponential_base, jitter |-> layer.jitter,
   initial_delay |-> layer.delay, num_retries |-> 0,
   last_exception |-> Unbound, e |-> NoExc]

\* as InRange, for range(1, max_retries)
InRangeShort(num_retries, max_retries) == 1 <= num_retries /\ num_retries < max_retries

\* as InRange, for itertools.count(1)
InRangeUnbounded(num_retries, max_retries) == 1 <= num_retries

\* as InRange, for range(1, max_retries + 2)
InRangeLong(num_retries, max_retries) ==
  1 <= num_retries /\ num_retries <= max_retries + 1

\* num_retries in range(1, max_retries + 1)
InRange(num_retries, max_retries) == 1 <= num_retries /\ num_retries <= max_retries

\* as IsCaught, for except Exception
IsCaughtAny(exc) == exc.kind # "None"

\* except RateLimitException
IsCaught(exc) == exc.kind = "RateLimitException"

\* as BackoffDelay, for exponential_base * (1 + random.random())
BackoffDelayAlwaysJitter(initial_delay, exponential_base, jitter, r) ==
  RMul(initial_delay, RMul(exponential_base, RAdd(Nat2R(1), r)))

\* as BackoffDelay, for exponential_base * ((1 + jitter) * random.random())
BackoffDelayScaled(initial_delay, exponential_base, jitter, r) ==
  RMul(initial_delay, RMul(exponential_base, RMul(RAdd(Nat2R(1), BoolNum(jitter)), r)))

\* as BackoffDelay, for exponential_base * (1 + jitter * 2 * random.random())
BackoffDelayDoubleJitter(initial_delay, exponential_base, jitter, r) ==
  RMul(initial_delay,
       RMul(exponential_base,
            RAdd(Nat2R(1), RMul(BoolNum(jitter), RMul(Nat2R(2), r)))))

\* as BackoffDelay, for initial_delay *= 1 + jitter * random.random()
BackoffDelayNoGrowth(initial_delay, exponential_base, jitter, r) ==
  RMul(initial_delay, RAdd(Nat2R(1), RMul(BoolNum(jitter), r)))

\* initial_delay *= exponential_base * (1 + jitter * random.random())
BackoffDelay(initial_delay, exponential_base, jitter, r) ==
  RMul(initial_delay, RMul(exponential_base, RAdd(Nat2R(1), RMul(BoolNum(jitter), r))))

\* as RetryExhausted, for raise last_exception
RetryExhaustedReraise(last_exception) ==
  IF last_exception = Unbound THEN UnboundLocalError ELSE last_exception

\* as RetryExhausted, raising a kind of its own that no retrier catches
RetryExhaustedOwnKind(last_exception) ==
  IF last_exception = Unbound
  THEN UnboundLocalError
  ELSE [kind |-> "RetryExhaustedError", msg |-> "Rate limit error after max retries.",
        id |-> 0, cause |-> last_exception]

\* raise RateLimitException("Rate limit error after max retries.") from last_exception
RetryExhausted(last_exception) ==
  IF last_exception = Unbound
  THEN UnboundLocalError
  ELSE [kind |-> "RateLimitException", msg |-> "Rate limit error after max retries.",
        id |-> 0, cause |-> last_exception]

\* as Catch, with the warning issued before the delay is updated
CatchLogFirst(fr, depth, exc, r) ==
  LET d == BackoffDelay(fr.initial_delay, fr.exponential_base, fr.jitter, r) IN
  [frame |-> [fr EXCEPT !.initial_delay = d, !.e = exc],
   events |-> <<LogEvent(depth, fr.num_retries, fr.max_retries, fr.initial_delay),
                SleepEvent(depth, d)>>]

\* the except clause up to the sleep: the frame after it and what it emits
Catch(fr, depth, exc, r) ==
  LET d == BackoffDelay(fr.initial_delay, fr.exponential_base, fr.jitter, r) IN
  [frame |-> [fr EXCEPT !.initial_delay = d, !.e = exc],
   events |-> <<LogEvent(depth, fr.num_retries, fr.max_retries, d), SleepEvent(depth, d)>>]

\* as Return, with the awaited value dropped: the frame returns None
ReturnNone(stk, v) ==
  [stack |-> <<>>, pc |-> "done", outcome |-> Returned("None"), events |-> <<>>]

\* return await func(self, *args, **kwargs): every frame of stk returns the
\* value of the call it awaits
Return(stk, v) ==
  [stack |-> <<>>, pc |-> "done", outcome |-> Returned(v), events |-> <<>>]

\* exc is raised into the frames of stk: the innermost frame catches it and
\* starts its sleep, or no frame catches it and the invocation fails with it
Throw(stk, exc, r) ==
  IF stk = <<>> \/ ~IsCaught(exc)
  THEN [stack |-> <<>>, pc |-> "done", outcome |-> Raised(exc), events |-> <<>>]
  ELSE LET c == Catch(stk[Len(stk)], Len(stk), exc, r) IN
       [stack |-> [stk EXCEPT ![Len(stk)] = c.frame], pc |-> "waiting",
        outcome |-> NoOutcome, events |-> c.events]

\* fn is called under the frames of stk, down to the call of the undecorated
\* operation; a layer whose loop runs no iteration raises at once
RECURSIVE Enter(_, _, _, _)
Enter(fn, stk, fields, r) ==
  IF fn = <<>>
  THEN [stack |-> stk, pc |-> "attempting", outcome |-> NoOutcome,
        events |-> <<CallEvent(Len(stk))>>]
  ELSE IF Head(fn).code = "_wrapper"
  THEN Enter(_wrapper(Tail(fn), fields), stk, fields, r)
  ELSE LET fr == NewFrame(Head(fn), Tail(fn)) IN
       IF InRange(1, fr.max_retries)
       THEN Enter(fr.func, Append(stk, [fr EXCEPT !.num_retries = 1]), fields, r)
       ELSE Throw(stk, RetryExhausted(fr.last_exception), r)

\* as AfterSleep, with the policy of the innermost frame read again from the
\* receiver's fields before each further iteration
AfterSleepLive(stk, fields, r) ==
  LET top == stk[Len(stk)]
      fr == [top EXCEPT !.last_exception = top.e, !.e = NoExc,
                        !.max_retries = fields.max_retries,
                        !.delay = fields.initial_delay,
                        !.exponential_base = fields.exponential_base,
                        !.jitter = fields.jitter]
  IN  IF InRange(fr.num_retries + 1, fr.max_retries)
      THEN Enter(fr.func,
                 [stk EXCEPT ![Len(stk)] = [fr EXCEPT !.num_retries = @ + 1]],
                 fields, r)
      ELSE Throw(SubSeq(stk, 1, Len(stk) - 1), RetryExhausted(fr.last_exception), r)

\* the sleep of the innermost frame is over: last_exception is assigned and
\* the loop goes on to the next attempt or ends in the raise after it
AfterSleep(stk, fields, r) ==
  LET top == stk[Len(stk)]
      fr == [top EXCEPT !.last_exception = top.e, !.e = NoExc]
  IN  IF InRange(fr.num_retries + 1, fr.max_retries)
      THEN Enter(fr.func,
                 [stk EXCEPT ![Len(stk)] = [fr EXCEPT !.num_retries = @ + 1]],
                 fields, r)
      ELSE Throw(SubSeq(stk, 1, Len(stk) - 1), RetryExhausted(fr.last_exception), r)

\* ---------------------------------------------------------- observers
Events(h, ev) == SelectSeq(h, LAMBDA x : x.ev = ev)

\* calls of the undecorated operation in this invocation so far
Attempts(t) == Len(Events(hist[t], "call"))

\* the delays slept in this invocation so far, in order
Waits(t) == Events(hist[t], "sleep")

\* the warnings logged in this invocation so far, in order
Logs(t) == Events(hist[t], "log")

\* ------------------------------------------------------------- actions
Init ==
  /\ method = <<>>
  /\ receiver \in {f \in [Receiver -> Policies] : \A rc \in Receiver : f[rc] \in FieldsOf(rc)}
  /\ pc = [t \in Task |-> "idle"]
  /\ self = [t \in Task |-> "r1"]
  /\ stack = [t \in Task |-> <<>>]
  /\ outcome = [t \in Task |-> NoOutcome]
  /\ hist = [t \in Task |-> <<>>]
  /\ callers = {"t1"}
  /\ faults = [t \in Task |-> 0]
  /\ last = [t \in Task |-> NoOutcome]
  /\ atcall = [t \in Task |-> NoFields]
  /\ rebound = [t \in Task |-> FALSE]
  /\ rewrapped = FALSE

\* as Step, with the frames kept in one place for all invocations in flight
StepShared(t, res, h) ==
  /\ pc' = [pc EXCEPT ![t] = res.pc]
  /\ stack' = [u \in Task |-> IF u = t \/ stack[u] # <<>> THEN res.stack ELSE stack[u]]
  /\ outcome' = [outcome EXCEPT ![t] = res.outcome]
  /\ hist' = [hist EXCEPT ![t] = h \o res.events]

\* what a step of task t's invocation leaves behind
Step(t, res, h) ==
  /\ pc' = [pc EXCEPT ![t] = res.pc]
  /\ stack' = [stack EXCEPT ![t] = res.stack]
  /\ outcome' = [outcome EXCEPT ![t] = res.outcome]
  /\ hist' = [hist EXCEPT ![t] = h \o res.events]

\* the class is set up (again) before its method is first called: the method
\* is replaced by Operation B of it
DecorateB ==
  /\ \A t \in Task : pc[t] = "idle"
  /\ Len(retry_with_exponential_backoff(method)) <= MaxLayers
  /\ method' = retry_with_exponential_backoff(method)
  /\ rewrapped' = (rewrapped \/ IsWrapper(method))
  /\ UNCHANGED <<receiver, pc, self, stack, outcome, hist, callers, faults, last,
                 atcall, rebound>>

\* the method is replaced by Operation A of it with an explicit policy
DecorateA(p) ==
  /\ \A t \in Task : pc[t] = "idle"
  /\ Len(method) < MaxLayers
  /\ method' = retry_function_with_exponential_backoff(
                 method, p.max_retries, p.initial_delay, p.exponential_base, p.jitter)
  /\ UNCHANGED <<receiver, pc, self, stack, outcome, hist, callers, faults, last,
                 atcall, rebound, rewrapped>>

\* a caller assigns the policy fields of a receiver
SetPolicy(rc, p) ==
  /\ receiver[rc] # p
  /\ receiver' = [receiver EXCEPT ![rc] = p]
  /\ UNCHANGED <<method, pc, self, stack, outcome, hist, callers, faults, last,
                 atcall, rebound, rewrapped>>

\* task t calls the method on receiver s and runs to its first await
Call(t, s, r) ==
  /\ pc[t] \in {"idle", "done"}
  /\ t \in callers
  /\ self' = [self EXCEPT ![t] = s]
  /\ faults' = [faults EXCEPT ![t] = 0]
  /\ last' = [last EXCEPT ![t] = NoOutcome]
  /\ atcall' = [atcall EXCEPT ![t] = receiver[s]]
  /\ rebound' = [rebound EXCEPT ![t] = pc[t] = "done" /\ s = self[t] /\ receiver[s] # atcall[t]]
  /\ Step(t, Enter(method, <<>>, receiver[s], r), <<>>)
  /\ UNCHANGED <<method, receiver, callers, rewrapped>>

\* the undecorated operation returns v
OpReturn(t, v) ==
  /\ pc[t] = "attempting"
  /\ last' = [last EXCEPT ![t] = Returned(v)]
  /\ Step(t, Return(stack[t], v), hist[t])
  /\ UNCHANGED <<method, receiver, self, callers, faults, atcall, rebound, rewrapped>>

\* the undecorated operation raises a rate-limit failure
OpRateLimit(t, r) ==
  /\ pc[t] = "attempting"
  /\ faults[t] < MaxFails
  /\ faults' = [faults EXCEPT ![t] = @ + 1]
  /\ last' = [last EXCEPT ![t] = Raised(OpRateLimitError(Attempts(t)))]
  /\ Step(t, Throw(stack[t], OpRateLimitError(Attempts(t)), r), hist[t])
  /\ UNCHANGED <<method, receiver, self, callers, atcall, rebound, rewrapped>>

\* the undecorated operation raises a failure of another kind
OpOther(t) ==
  /\ pc[t] = "attempting"
  /\ last' = [last EXCEPT ![t] = Raised(OpOtherError(Attempts(t)))]
  /\ \E r \in Random : Step(t, Throw(stack[t], OpOtherError(Attempts(t)), r), hist[t])
  /\ UNCHANGED <<method, receiver, self, callers, faults, atcall, rebound, rewrapped>>

\* the sleep of task t ends and its invocation runs to its next await
SleepDone(t, r) ==
  /\ pc[t] = "waiting"
  /\ Step(t, AfterSleep(stack[t], receiver[self[t]], r), hist[t])
  /\ UNCHANGED <<method, receiver, self, callers, faults, last, atcall, rebound, rewrapped>>

Next ==
  \/ DecorateB
  \/ \E p \in ExplicitPolicies : DecorateA(p)
  \/ \E rc \in Receiver : \E p \in FieldsOf(rc) : SetPolicy(rc, p)
  \/ \E t \in Task, s \in Receiver, r \in Random : Call(t, s, r)
  \/ \E t \in Task, v \in Values : OpReturn(t, v)
  \/ \E t \in Task, r \in Random : OpRateLimit(t, r)
  \/ \E t \in Task : OpOther(t)
  \/ \E t \in Task, r \in Random : SleepDone(t, r)

Spec == Init /\ [][Next]_vars

\* the call of the undecorated operation that task t awaits comes back
OpDone(t) ==
  \/ \E v \in Values : OpReturn(t, v)
  \/ \E r \in Random : OpRateLimit(t, r)
  \/ OpOther(t)

\* the sleep that task t awaits ends
Wakes(t) == \E r \in Random : SleepDone(t, r)

\* every awaited call of the operation comes back and every sleep ends: weak
\* fairness of OpDone(t) and of Wakes(t), the latter written out with its
\* enabling condition pc[t] = "waiting"
Fairness ==
  \A t \in Task :
    /\ WF_vars(OpDone(t))
    /\ <>[](pc[t] = "waiting") => []<><<Wakes(t)>>_vars

\* as Next, the fields being assigned only policies of at most one attempt
NextFair ==
  \/ DecorateB
  \/ \E p \in ExplicitPolicies : DecorateA(p)
  \/ \E rc \in Receiver : \E p \in {q \in FieldsOf(rc) : q.max_retries <= 1} :
        SetPolicy(rc, p)
  \/ \E t \in Task, s \in Receiver, r \in Random : Call(t, s, r)
  \/ \E t \in Task, v \in Values : OpReturn(t, v)
  \/ \E t \in Task, r \in Random : OpRateLimit(t, r)
  \/ \E t \in Task : OpOther(t)
  \/ \E t \in Task, r \in Random : SleepDone(t, r)

SpecFair == Init /\ [][NextFair]_vars /\ Fairness

\* both tasks call the method, decorated by Operation B or not at all
InitConc ==
  /\ method = <<>>
  /\ receiver \in {f \in [Receiver -> Policies] : \A rc \in Receiver : f[rc] \in FieldsOf(rc)}
  /\ pc = [t \in Task |-> "idle"]
  /\ self = [t \in Task |-> "r1"]
  /\ stack = [t \in Task |-> <<>>]
  /\ outcome = [t \in Task |-> NoOutcome]
  /\ hist = [t \in Task |-> <<>>]
  /\ callers = Task
  /\ faults = [t \in Task |-> 0]
  /\ last = [t \in Task |-> NoOutcome]
  /\ atcall = [t \in Task |-> NoFields]
  /\ rebound = [t \in Task |-> FALSE]
  /\ rewrapped = FALSE

NextConc ==
  \/ DecorateB
  \/ \E rc \in Receiver : \E p \in FieldsOf(rc) : SetPolicy(rc, p)
  \/ \E t \in Task, s \in Receiver, r \in Random : Call(t, s, r)
  \/ \E t \in Task, v \in Values : OpReturn(t, v)
  \/ \E t \in Task, r \in Random : OpRateLimit(t, r)
  \/ \E t \in Task : OpOther(t)
  \/ \E t \in Task, r \in Random : SleepDone(t, r)

SpecConc == InitConc /\ [][NextConc]_vars

\* ------------------------------------------------- terms of the claims
ExhaustedMsg == "Rate limit error after max retries."

\* the method has exactly one retry layer, of Operation A or of Operation B
Single == Len(method) = 1

\* the policy of the outermost exponential_delay of task t's invocation
Policy(t) ==
  IF IsWrapper(method)
  THEN [max_retries |-> atcall[t].max_retries, delay |-> atcall[t].initial_delay,
        exponential_base |-> atcall[t].exponential_base, jitter |-> atcall[t].jitter]
  ELSE [max_retries |-> Head(method).max_retries, delay |-> Head(method).delay,
        exponential_base |-> Head(method).exponential_base,
        jitter |-> Head(method).jitter]

Done(t) == pc[t] = "done"

\* the invocation is over and the last thing the operation did was ...
Succeeded(t) == Done(t) /\ last[t].status = "returned"

FailedRateLimit(t) ==
  Done(t) /\ last[t].status = "raised" /\ last[t].exc.kind = "RateLimitException"

FailedOther(t) ==
  Done(t) /\ last[t].status = "raised" /\ last[t].exc.kind = "OtherError"

\* x is the error raised after the loop, chained to cause
IsExhausted(x, cause) ==
  /\ x.status = "raised"
  /\ x.exc.kind = "RateLimitException"
  /\ x.exc.msg = ExhaustedMsg
  /\ x.exc.cause = cause

LastEvent(t) == hist[t][Len(hist[t])]

\* ------------------------------------------------------------------ C1
\* C1: under one retry layer with max_retries = N >= 1, when the operation
\* raised the rate-limit failure k-1 times and then returned a value on
\* attempt k, the invocation returns exactly that value, the operation was
\* called exactly k times (k <= N, nothing after the success) and exactly
\* k-1 sleeps occurred.
C1_SuccessOnAttemptK ==
  \A t \in Task :
    (Succeeded(t) /\ Single /\ Policy(t).max_retries >= 1) =>
      /\ outcome[t] = Returned(last[t].value)
      /\ Attempts(t) = faults[t] + 1
      /\ Attempts(t) <= Policy(t).max_retries
      /\ Len(Waits(t)) = faults[t]
      /\ LastEvent(t).ev = "call"

C1_Witness ==
  \E t \in Task :
    /\ Succeeded(t) /\ Single /\ Policy(t).max_retries >= 2
    /\ faults[t] = 1 /\ Attempts(t) = 2 /\ Len(Waits(t)) = 1
    /\ outcome[t] = Returned("v2")

\* ------------------------------------------------------------------ C2
\* C2: under one retry layer with max_retries = N >= 1, when the operation
\* raised the rate-limit failure on every attempt, it was called exactly N
\* times and the invocation fails with the retry-exhausted error whose cause
\* is the failure instance of the Nth attempt.
C2_ExhaustedAfterN ==
  \A t \in Task :
    (FailedRateLimit(t) /\ Single /\ Policy(t).max_retries >= 1) =>
      /\ Attempts(t) = Policy(t).max_retries
      /\ faults[t] = Policy(t).max_retries
      /\ last[t].exc = OpRateLimitError(Policy(t).max_retries)
      /\ IsExhausted(outcome[t], OpRateLimitError(Policy(t).max_retries))

C2_Witness ==
  \E t \in Task :
    /\ FailedRateLimit(t) /\ Single /\ Policy(t).max_retries = 2
    /\ Attempts(t) = 2
    /\ outcome[t].exc.cause = OpRateLimitError(2)

\* ------------------------------------------------------------------ C3
\* C3: under one retry layer with max_retries = N >= 1, no sleep follows the
\* Nth failed attempt: an operation that always raises the rate-limit
\* failure incurs exactly N-1 sleeps before the retry-exhausted error.
C3_NoWaitAfterLastAttempt ==
  \A t \in Task :
    (FailedRateLimit(t) /\ Single /\ Policy(t).max_retries >= 1) =>
      Len(Waits(t)) = Policy(t).max_retries - 1

\* ------------------------------------------------------------------ C4
\* C4: when the operation raises a failure that is not the rate-limit kind,
\* the invocation fails at once with that same failure: nothing (no call, no
\* warning, no sleep) follows the failing call, and under one retry layer the
\* sleeps and warnings are those of the rate-limit failures before it, none
\* when it is the first attempt.
C4_OtherFailurePropagates ==
  \A t \in Task :
    FailedOther(t) =>
      /\ outcome[t] = last[t]
      /\ LastEvent(t).ev = "call"
      /\ last[t].exc.id = Attempts(t)
      /\ Single =>
           /\ Attempts(t) = faults[t] + 1
           /\ Len(Waits(t)) = faults[t]
           /\ Len(Logs(t)) = faults[t]

C4_Witness ==
  \E t \in Task :
    /\ FailedOther(t) /\ Single /\ Policy(t).max_retries >= 2
    /\ Attempts(t) = 1 /\ Waits(t) = <<>> /\ Logs(t) = <<>>
    /\ outcome[t] = Raised(OpOtherError(1))

\* ------------------------------------------------------------------ C5
\* the delay slept before wait i of task t's invocation: the delay the
\* invocation started with, or the delay of the wait before
PrevDelay(t, i) == IF i = 1 THEN Policy(t).delay ELSE Waits(t)[i - 1].delay

\* C5: under one retry layer with jitter disabled the sleeps are exactly
\* geometric: the first is initial_delay x exponential_base, every later one
\* is the previous one x exponential_base, so the k-th is
\* initial_delay x exponential_base^k.
C5_GeometricWithoutJitter ==
  \A t \in Task :
    (pc[t] # "idle" /\ Single /\ ~Policy(t).jitter) =>
      \A i \in 1 .. Len(Waits(t)) :
        /\ Waits(t)[i].delay = RMul(PrevDelay(t, i), Policy(t).exponential_base)
        /\ Waits(t)[i].delay =
             RMul(Policy(t).delay, RPow(Policy(t).exponential_base, i))

C5_Witness ==
  \E t \in Task :
    /\ pc[t] # "idle" /\ Single /\ ~Policy(t).jitter
    /\ Len(Waits(t)) = 2
    /\ Waits(t)[1].delay = Nat2R(6) /\ Waits(t)[2].delay = Nat2R(12)

\* ------------------------------------------------------------------ C6
\* C6: under one retry layer with jitter enabled every sleep d_k satisfies
\* d_(k-1) x exponential_base <= d_k < 2 x d_(k-1) x exponential_base, where
\* d_0 is initial_delay and d_(k-1) is the delay actually slept before.
C6_JitterStepRange ==
  \A t \in Task :
    (pc[t] # "idle" /\ Single /\ Policy(t).jitter) =>
      \A i \in 1 .. Len(Waits(t)) :
        LET lo == RMul(PrevDelay(t, i), Policy(t).exponential_base) IN
        /\ RLe(lo, Waits(t)[i].delay)
        /\ RLt(Waits(t)[i].delay, RMul(Nat2R(2), lo))

\* two sleeps, the first jittered above its lower end and the second not
C6_Witness ==
  \E t \in Task :
    /\ pc[t] # "idle" /\ Single /\ Policy(t).jitter
    /\ Len(Waits(t)) = 2
    /\ RLt(RMul(Policy(t).delay, Policy(t).exponential_base), Waits(t)[1].delay)
    /\ Waits(t)[2].delay = RMul(Waits(t)[1].delay, Policy(t).exponential_base)

\* ------------------------------------------------------------------ C7
\* the method is the undecorated operation under layers of Operation B only
OnlyWrappers ==
  method # <<>> /\ \A i \in 1 .. Len(method) : method[i].code = "_wrapper"

\* C7: Operation B applied to a result of Operation B returns it unchanged:
\* no function object has a _wrapper layer directly over a _wrapper layer,
\* and once the operation was decorated by Operation B more than once, an
\* invocation on a receiver with max_retries = N >= 1 in which it always
\* raises the rate-limit failure calls it exactly N times (not N x N), with
\* the sleeps of a single layer.
C7_RewrapUnchanged ==
  /\ \A i \in 1 .. Len(method) - 1 :
       ~(method[i].code = "_wrapper" /\ method[i + 1].code = "_wrapper")
  /\ \A t \in Task :
       (rewrapped /\ OnlyWrappers /\ FailedRateLimit(t) /\ atcall[t].max_retries >= 1) =>
         /\ Attempts(t) = atcall[t].max_retries
         /\ Len(Waits(t)) = faults[t]
         /\ \A i \in 1 .. Len(Waits(t)) :
              LET lo == RMul(PrevDelay(t, i), atcall[t].exponential_base) IN
              /\ Waits(t)[i].depth = 1
              /\ RLe(lo, Waits(t)[i].delay)
              /\ RLt(Waits(t)[i].delay, RMul(Nat2R(2), lo))

C7_Witness ==
  \E t \in Task :
    /\ rewrapped /\ method = <<[code |-> "_wrapper"]>>
    /\ FailedRateLimit(t) /\ atcall[t].max_retries = 2 /\ Attempts(t) = 2

\* ------------------------------------------------------------------ C8
\* the policy a frame of exponential_delay runs with, as receiver fields
FrameFields(fr) ==
  [max_retries |-> fr.max_retries, initial_delay |-> fr.delay,
   exponential_base |-> fr.exponential_base, jitter |-> fr.jitter]

\* C8: an invocation of an Operation B wrapper runs Operation A with the
\* values the fields of its receiver hold when the invocation starts,
\* whichever receiver it is and whatever the fields held before: its
\* outermost frame holds them, its warnings name that max_retries, its first
\* sleep is computed from that initial_delay and exponential_base, and when
\* the operation always raises the rate-limit failure it is called
\* max_retries times.
C8_PolicyReadAtCall ==
  \A t \in Task :
    (pc[t] # "idle" /\ IsWrapper(method)) =>
      /\ stack[t] # <<>> => FrameFields(stack[t][1]) = atcall[t]
      /\ \A i \in 1 .. Len(Logs(t)) :
           Logs(t)[i].depth = 1 => Logs(t)[i].max = atcall[t].max_retries
      /\ (Single /\ Waits(t) # <<>>) =>
           LET lo == RMul(atcall[t].initial_delay, atcall[t].exponential_base) IN
           /\ RLe(lo, Waits(t)[1].delay)
           /\ RLt(Waits(t)[1].delay, RMul(Nat2R(2), lo))
           /\ ~atcall[t].jitter => Waits(t)[1].delay = lo
      /\ (Single /\ FailedRateLimit(t) /\ atcall[t].max_retries >= 1) =>
           Attempts(t) = atcall[t].max_retries

\* a second call on the same receiver, whose fields were assigned since the
\* first, has run to exhaustion with the new max_retries
C8_Witness ==
  \E t \in Task :
    /\ rebound[t] /\ Single /\ IsWrapper(method)
    /\ receiver[self[t]] = atcall[t]
    /\ FailedRateLimit(t) /\ atcall[t].max_retries = 2 /\ Attempts(t) = 2
    /\ Len(Logs(t)) = 2

\* ------------------------------------------------------------------ C9
\* the three ways an invocation ends
EndsSucceeded(t) == Succeeded(t) /\ outcome[t] = Returned(last[t].value)

EndsExhausted(t) ==
  /\ FailedRateLimit(t)
  /\ IsExhausted(outcome[t], last[t].exc)
  /\ outcome[t].exc.cause.kind = "RateLimitException"

EndsFailedOther(t) == FailedOther(t) /\ outcome[t] = last[t]

\* task t starts a new invocation
Calls(t) == \E s \in Receiver, r \in Random : Call(t, s, r)

\* C9: under one retry layer with max_retries >= 1 a completed invocation
\* ends in exactly one of: the value the operation returned, the
\* retry-exhausted error chained to a rate-limit failure, the failure of
\* another kind the operation raised; a rate-limit failure the operation
\* raised is never the invocation's own failure; and once an invocation has
\* ended, it makes no further call, sleep or warning and keeps its outcome.
C9_ThreeOutcomes ==
  /\ [](\A t \in Task :
          (Done(t) /\ Single /\ Policy(t).max_retries >= 1) =>
            /\ EndsSucceeded(t) \/ EndsExhausted(t) \/ EndsFailedOther(t)
            /\ outcome[t].status = "raised" =>
                 \A i \in 1 .. MaxFails : outcome[t].exc # OpRateLimitError(i))
  /\ [][\A t \in Task :
          Done(t) =>
            \/ Calls(t)
            \/ /\ pc'[t] = "done"
               /\ hist'[t] = hist[t]
               /\ outcome'[t] = outcome[t]
               /\ stack'[t] = <<>>]_vars

C9_Witness ==
  \E t \in Task :
    /\ Single /\ Policy(t).max_retries = 2
    /\ EndsExhausted(t)
    /\ stack[t] = <<>> /\ LastEvent(t).ev = "sleep"

\* ----------------------------------------------------------------- C10
\* the method is Operation A applied to a result of Operation A, both with
\* at least one attempt
NestedA ==
  /\ Len(method) = 2
  /\ \A i \in 1 .. 2 : method[i].code = "exponential_delay" /\ method[i].max_retries >= 1

\* C10 as stated: the retry-exhausted error is not the kind the retrier
\* catches, so an outer Operation A layer does not retry an inner one that
\* ran out of attempts: the operation is called at most the inner
\* max_retries times and the outer layer never sleeps.
C10_ExhaustedNotRetried ==
  \A t \in Task :
    (pc[t] # "idle" /\ NestedA) =>
      /\ Attempts(t) <= method[2].max_retries
      /\ \A i \in 1 .. Len(Waits(t)) : Waits(t)[i].depth = 2

\* C10 amended: the retry-exhausted error is a RateLimitException, the kind
\* the retrier catches: an outer Operation A layer catches the error of an
\* inner one that ran out of attempts, sleeps and calls it again, so when
\* the operation always raises the rate-limit failure it is called outer
\* max_retries x inner max_retries times, and the invocation fails with the
\* outer layer's retry-exhausted error, chained to the inner layer's, chained
\* to the operation's last failure.
C10_ExhaustedIsRetried ==
  \A t \in Task :
    (NestedA /\ FailedRateLimit(t)) =>
      /\ Attempts(t) = method[1].max_retries * method[2].max_retries
      /\ outcome[t].status = "raised"
      /\ outcome[t].exc.kind = "RateLimitException"
      /\ outcome[t].exc.msg = ExhaustedMsg
      /\ IsExhausted(Raised(outcome[t].exc.cause), last[t].exc)
      /\ Len(SelectSeq(Waits(t), LAMBDA w : w.depth = 1)) = method[1].max_retries

C10_Witness ==
  \E t \in Task :
    /\ NestedA /\ FailedRateLimit(t)
    /\ method[1].max_retries = 2 /\ method[2].max_retries = 2
    /\ Attempts(t) = 4
    /\ outcome[t].exc.cause.cause = OpRateLimitError(4)

\* ----------------------------------------------------------------- C11
\* C11: under one retry layer with max_retries = 0 the loop runs no
\* iteration and the invocation fails with the retry-exhausted error
\* carrying no chained cause, not with an error of another kind.
C11_ZeroRetriesFailsSafely ==
  \A t \in Task :
    (Done(t) /\ Single /\ Policy(t).max_retries = 0) =>
      /\ Attempts(t) = 0
      /\ IsExhausted(outcome[t], NoExc)

\* ----------------------------------------------------------------- C12
\* C12: under one retry layer exactly one warning is issued per rate-limit
\* failure caught and none otherwise; the warning for the failure of attempt
\* k carries k, max_retries and the updated delay that is slept next; under
\* any layers every warning is directly followed by the sleep of the delay
\* it names, and every sleep directly follows such a warning.
C12_OneWarningPerCaughtFailure ==
  \A t \in Task :
    pc[t] # "idle" =>
      /\ \A j \in 1 .. Len(hist[t]) :
           /\ hist[t][j].ev = "log" =>
                /\ j < Len(hist[t])
                /\ hist[t][j + 1] = SleepEvent(hist[t][j].depth, hist[t][j].delay)
           /\ hist[t][j].ev = "sleep" => (j > 1 /\ hist[t][j - 1].ev = "log")
      /\ Single =>
           /\ Len(Logs(t)) = faults[t]
           /\ \A i \in 1 .. Len(Logs(t)) :
                /\ Logs(t)[i].n = i
                /\ Logs(t)[i].max = Policy(t).max_retries
                /\ Logs(t)[i].delay = Waits(t)[i].delay
                /\ RLe(RMul(PrevDelay(t, i), Policy(t).exponential_base),
                       Logs(t)[i].delay)

\* a success on the second attempt: one warning, for attempt 1, and none
\* for the success
C12_Witness ==
  \E t \in Task :
    /\ Succeeded(t) /\ Single /\ Attempts(t) = 2
    /\ Logs(t) = <<LogEvent(1, 1, 2, Nat2R(6))>>
    /\ LastEvent(t).ev = "call"

\* ----------------------------------------------------------------- C14
\* C14: in every state of an invocation, whatever the operation returned or
\* raised so far, the attempt counter of every exponential_delay frame is
\* within 1..max_retries; under one retry layer the operation has been
\* called at most max_retries times, and while the invocation is in flight
\* exactly as many times as the counter says.
C14_AttemptsBounded ==
  \A t \in Task :
    /\ \A i \in 1 .. Len(stack[t]) :
         /\ 1 <= stack[t][i].num_retries
         /\ stack[t][i].num_retries <= stack[t][i].max_retries
    /\ (pc[t] # "idle" /\ Single) =>
         /\ Attempts(t) <= Policy(t).max_retries
         /\ stack[t] # <<>> => Attempts(t) = stack[t][1].num_retries

\* the last attempt the largest budget allows is in flight
C14_Witness ==
  \E t \in Task :
    /\ Single /\ pc[t] = "attempting"
    /\ Policy(t).max_retries = MaxRetries
    /\ stack[t][1].num_retries = MaxRetries /\ Attempts(t) = MaxRetries

\* ----------------------------------------------------------------- C15
\* C15 as stated: with jitter enabled the k-th sleep is at least
\* initial_delay x exponential_base^k and less than twice that.
C15_JitterWithinTwice ==
  \A t \in Task :
    (pc[t] # "idle" /\ Single /\ Policy(t).jitter) =>
      \A k \in 1 .. Len(Waits(t)) :
        LET nojitter == RMul(Policy(t).delay, RPow(Policy(t).exponential_base, k)) IN
        /\ RLe(nojitter, Waits(t)[k].delay)
        /\ RLt(Waits(t)[k].delay, RMul(Nat2R(2), nojitter))

\* C15 amended: the jitter factors accumulate in the running delay, so with
\* jitter enabled the k-th sleep is at least initial_delay x
\* exponential_base^k and less than 2^k times that.
C15_JitterCompounds ==
  \A t \in Task :
    (pc[t] # "idle" /\ Single /\ Policy(t).jitter) =>
      \A k \in 1 .. Len(Waits(t)) :
        LET nojitter == RMul(Policy(t).delay, RPow(Policy(t).exponential_base, k)) IN
        /\ RLe(nojitter, Waits(t)[k].delay)
        /\ RLt(Waits(t)[k].delay, RMul(RPow(Nat2R(2), k), nojitter))

\* a second jittered sleep of at least twice the no-jitter one
C15_Witness ==
  \E t \in Task :
    /\ Single /\ Policy(t).jitter /\ Len(Waits(t)) = 2
    /\ RLe(RMul(Nat2R(2), RMul(Policy(t).delay, RPow(Policy(t).exponential_base, 2))),
           Waits(t)[2].delay)

\* ----------------------------------------------------------------- C16
\* C16: under one retry layer with initial_delay > 0 and exponential_base > 1
\* every sleep is strictly longer than initial_delay and strictly longer
\* than the sleep before it, with jitter or without.
C16_WaitsIncrease ==
  \A t \in Task :
    (/\ pc[t] # "idle" /\ Single
     /\ RLt(Nat2R(0), Policy(t).delay)
     /\ RLt(Nat2R(1), Policy(t).exponential_base)) =>
      \A k \in 1 .. Len(Waits(t)) :
        /\ RLt(Policy(t).delay, Waits(t)[k].delay)
        /\ k > 1 => RLt(Waits(t)[k - 1].delay, Waits(t)[k].delay)

\* two sleeps in a row, once with jitter and once without
C16_Witness ==
  /\ \E t \in Task :
       /\ Single /\ Len(Waits(t)) = 2 /\ Policy(t).jitter
       /\ RLt(Waits(t)[1].delay, Waits(t)[2].delay)
  /\ \E p \in Policies : ~p.jitter /\ p.max_retries = MaxRetries

\* ----------------------------------------------------------------- C18
\* an assignment to a field of some receiver
SetsPolicy == \E rc \in Receiver : \E p \in FieldsOf(rc) : SetPolicy(rc, p)

InFlight(t) == pc[t] \in {"attempting", "waiting"}

\* C18: an invocation of an Operation B wrapper takes the four fields of
\* its receiver once, when it starts: an assignment to the fields changes no
\* frame of an invocation in flight, the policy held by the outermost frame
\* never changes between two states of the same invocation, and under one
\* layer the budget and every sleep of the invocation follow the values
\* taken at its start, whatever the fields hold by then; an invocation
\* started later takes the values the fields hold at its start.
C18_PolicyFixedInFlight ==
  /\ [](\A t \in Task :
          (pc[t] # "idle" /\ IsWrapper(method) /\ Single) =>
            /\ stack[t] # <<>> =>
                 /\ stack[t][1].num_retries <= atcall[t].max_retries
                 /\ stack[t][1].exponential_base = atcall[t].exponential_base
                 /\ stack[t][1].jitter = atcall[t].jitter
            /\ FailedRateLimit(t) => Attempts(t) = atcall[t].max_retries
            /\ \A k \in 1 .. Len(Waits(t)) :
                 LET nojitter == RMul(atcall[t].initial_delay,
                                      RPow(atcall[t].exponential_base, k)) IN
                 /\ RLe(nojitter, Waits(t)[k].delay)
                 /\ ~atcall[t].jitter => Waits(t)[k].delay = nojitter)
  /\ [][/\ SetsPolicy => UNCHANGED <<stack, hist, pc, outcome>>
        /\ \A t \in Task :
             /\ (IsWrapper(method) /\ InFlight(t) /\ InFlight(t)') =>
                  FrameFields(stack[t][1])' = FrameFields(stack[t][1])
             /\ (IsWrapper(method) /\ Calls(t) /\ stack'[t] # <<>>) =>
                  FrameFields(stack'[t][1]) = receiver[self'[t]]]_vars

\* an invocation that took max_retries = 2 is on its second attempt while
\* the fields of its receiver hold max_retries = 1 and another initial_delay
C18_Witness ==
  \E t \in Task :
    /\ Single /\ IsWrapper(method) /\ pc[t] = "attempting"
    /\ atcall[t].max_retries = 2 /\ stack[t][1].num_retries = 2
    /\ receiver[self[t]].max_retries = 1
    /\ receiver[self[t]].initial_delay # atcall[t].initial_delay
    /\ Len(Waits(t)) = 1

\* ----------------------------------------------------------------- C17
\* the iterations the frames of stk from the i-th on have left, a frame
\* weighing more than all the frames it can hold inside it
RECURSIVE Rank(_, _)
Rank(stk, i) ==
  IF i > Len(stk) THEN 0
  ELSE (stk[i].max_retries - stk[i].num_retries) * (MaxRetries + 1) ^ (MaxLayers - i)
         + Rank(stk, i + 1)

Left(t) == Rank(stack[t], 1)

\* C17: when every awaited call of the operation comes back and every sleep
\* ends, every invocation in flight ends (with a value, the retry-exhausted
\* error or another failure); it cannot alternate between attempting and
\* waiting forever, since the iterations its frames have left are never
\* negative, never grow while it is in flight and shrink each time a sleep
\* is followed by a further attempt.
C17_Terminates ==
  /\ \A t \in Task : InFlight(t) ~> Done(t)
  /\ [](\A t \in Task : Left(t) >= 0)
  /\ [][\A t \in Task :
          (InFlight(t) /\ InFlight(t)') =>
            /\ Left(t)' <= Left(t)
            /\ (pc[t] = "waiting" /\ pc'[t] = "attempting") => Left(t)' < Left(t)]_vars

\* an invocation under two layers has ended with a value after two sleeps
C17_Witness ==
  \E t \in Task :
    /\ Len(method) = 2 /\ Succeeded(t) /\ Len(Waits(t)) = 2
    /\ Attempts(t) = 2

\* ----------------------------------------------------------------- C13
\* the k-th sleep of an invocation running alone under policy p, no jitter
SoloDelay(p, k) == RMul(p.delay, RPow(p.exponential_base, k))

\* what an invocation running alone under one layer of policy p has called,
\* logged and slept when the operation raised the rate-limit failure k times
RECURSIVE SoloFailed(_, _)
SoloFailed(p, k) ==
  IF k = 0 THEN <<>>
  ELSE SoloFailed(p, k - 1)
         \o <<CallEvent(1), LogEvent(1, k, p.max_retries, SoloDelay(p, k)),
              SleepEvent(1, SoloDelay(p, k))>>

\* ... and then, if open, was called once more
SoloHist(p, k, open) ==
  SoloFailed(p, k) \o (IF open THEN <<CallEvent(1)>> ELSE <<>>)

\* how that invocation ends when the operation's last result is res
SoloOutcome(p, res) ==
  IF p.max_retries = 0 THEN Raised(UnboundLocalError)
  ELSE IF res.status = "raised" /\ res.exc.kind = "RateLimitException"
  THEN Raised([kind |-> "RateLimitException", msg |-> ExhaustedMsg, id |-> 0,
               cause |-> res.exc])
  ELSE res

\* the rate-limit failure of the k-th call, if any
SoloError(k) == IF k = 0 THEN Unbound ELSE OpRateLimitError(k)

\* an event without its delay
Shape(h) ==
  [i \in 1 .. Len(h) |-> [ev |-> h[i].ev, depth |-> h[i].depth, n |-> h[i].n,
                          max |-> h[i].max]]

\* the state of task t's invocation
TaskState(t) ==
  <<pc[t], self[t], stack[t], outcome[t], hist[t], faults[t], last[t], atcall[t]>>

\* task t starts its invocation or goes on with it
OwnStep(t) == Calls(t) \/ OpDone(t) \/ Wakes(t)

\* the last call of task t's invocation has not failed with the rate limit
Open(t) == pc[t] = "attempting" \/ Succeeded(t) \/ FailedOther(t)

\* C13: invocations that run concurrently, on the same receiver or on
\* different ones, do not interact: a step of one invocation changes nothing
\* of another and assigns neither the method nor a receiver's fields, and
\* under every interleaving the calls, warnings, sleeps, captured errors and
\* outcome of each invocation under one layer are those of an invocation
\* running alone with the policy it started with and the results its own
\* calls of the operation had (its delays exactly so without jitter).
C13_InvocationsDoNotInteract ==
  /\ [](\A t \in Task :
          (pc[t] # "idle" /\ Single) =>
            LET p == Policy(t)
                k == faults[t]
            IN  /\ Shape(hist[t]) = Shape(SoloHist(p, k, Open(t)))
                /\ ~p.jitter => hist[t] = SoloHist(p, k, Open(t))
                /\ Attempts(t) = k + (IF Open(t) THEN 1 ELSE 0)
                /\ InFlight(t) => Len(stack[t]) = 1
                /\ (pc[t] = "attempting" /\ stack[t] # <<>>) =>
                     stack[t][1].last_exception = SoloError(k)
                /\ (pc[t] = "waiting" /\ stack[t] # <<>>) =>
                     /\ stack[t][1].e = SoloError(k)
                     /\ stack[t][1].last_exception = SoloError(k - 1)
                /\ FailedRateLimit(t) => k = p.max_retries
                /\ outcome[t] = (IF Done(t) THEN SoloOutcome(p, last[t]) ELSE NoOutcome))
  /\ [][\A t \in Task :
          /\ TaskState(t)' # TaskState(t) => OwnStep(t)
          /\ <<method, receiver>>' # <<method, receiver>> => ~OwnStep(t)]_vars

\* two invocations in flight on the same receiver, started with different
\* values of its fields, one sleeping after its second failure and one in
\* its second attempt
C13_Witness ==
  /\ Single /\ IsWrapper(method)
  /\ self["t1"] = self["t2"]
  /\ atcall["t1"] # atcall["t2"]
  /\ pc["t1"] = "waiting" /\ faults["t1"] = 2
  /\ pc["t2"] = "attempting" /\ faults["t2"] = 1

====
